---- MODULE Spec2Model ----
(***************************************************************************)
(* A model of mat_neuron/core.py: integration of the multi-timescale       *)
(* adaptive threshold (MAT) neuron model.                                  *)
(*                                                                         *)
(* Numbers are exact rationals <<numerator, denominator>> in lowest terms  *)
(* with a positive denominator.  The exponentials (np.exp, linalg.expm)    *)
(* are their power series cut after TaylorOrder terms, evaluated exactly.  *)
(* Python sequences are indexed from 0; here row i of a trajectory is      *)
(* element i + 1 of a sequence.                                            *)
(***************************************************************************)
EXTENDS Integers, Sequences, FiniteSets, TLC

\* ------------------------------------------------------------------ bounds

\* Terms of the power series of exp kept after the constant term.
TaylorOrder == 2

\* Longest current trace / largest trace length N.
MaxN == 2

\* ------------------------------------------------------- exact arithmetic

Abs(x) == IF x < 0 THEN -x ELSE x

RECURSIVE GCD(_, _)
GCD(a, b) == IF b = 0 THEN a ELSE GCD(b, a % b)

\* n / d in lowest terms (d # 0).
Rat(n, d) ==
    LET g == GCD(Abs(n), Abs(d))
        s == IF d < 0 THEN -1 ELSE 1
    IN  <<(s * n) \div g, (s * d) \div g>>

Num(n) == <<n, 1>>

Zero == Num(0)

One == Num(1)

RNeg(x) == <<-x[1], x[2]>>

RAdd(x, y) ==
    LET g == GCD(x[2], y[2])
    IN  Rat(x[1] * (y[2] \div g) + y[1] * (x[2] \div g), (x[2] \div g) * y[2])

RSub(x, y) == RAdd(x, RNeg(y))

RMul(x, y) ==
    LET g1 == GCD(Abs(x[1]), y[2])
        g2 == GCD(Abs(y[1]), x[2])
    IN  Rat((x[1] \div g1) * (y[1] \div g2), (x[2] \div g2) * (y[2] \div g1))

\* True division (from __future__ import division); the caller has checked
\* that y is not zero.
RDiv(x, y) == RMul(x, Rat(y[2], y[1]))

RLeq(x, y) ==
    LET g == GCD(x[2], y[2])
    IN  x[1] * (y[2] \div g) <= y[1] * (x[2] \div g)

RECURSIVE SumSeq(_)
SumSeq(s) == IF s = <<>> THEN Zero ELSE RAdd(Head(s), SumSeq(Tail(s)))

\* The sequence <<F(1), ..., F(n)>>, built element by element.
RECURSIVE Tabulate(_, _)
Tabulate(F(_), n) == IF n = 0 THEN <<>> ELSE Append(Tabulate(F, n - 1), F(n))

Dot(u, v) == SumSeq(Tabulate(LAMBDA k : RMul(u[k], v[k]), Len(u)))

\* np.dot(M, y)
MatVec(M, y) == Tabulate(LAMBDA i : Dot(M[i], y), Len(M))

VecAdd(u, v) == Tabulate(LAMBDA i : RAdd(u[i], v[i]), Len(u))

Column(M, j) == Tabulate(LAMBDA k : M[k][j], Len(M))

MatMul(A, B) ==
    Tabulate(LAMBDA i : Tabulate(LAMBDA j : Dot(A[i], Column(B, j)), Len(A)), Len(A))

MatAdd(A, B) ==
    Tabulate(LAMBDA i : Tabulate(LAMBDA j : RAdd(A[i][j], B[i][j]), Len(A)), Len(A))

MatScale(A, c) ==
    Tabulate(LAMBDA i : Tabulate(LAMBDA j : RMul(A[i][j], c), Len(A)), Len(A))

Identity(n) ==
    Tabulate(LAMBDA i : Tabulate(LAMBDA j : IF i = j THEN One ELSE Zero, n), n)

\* x^k / k!
RECURSIVE ExpTerm(_, _)
ExpTerm(x, k) ==
    IF k = 0 THEN One ELSE RMul(RMul(ExpTerm(x, k - 1), x), Rat(1, k))

\* np.exp(x)
Exp(x) == SumSeq(Tabulate(LAMBDA k : ExpTerm(x, k - 1), TaylorOrder + 1))

\* M^k / k!
RECURSIVE ExpmTerm(_, _)
ExpmTerm(M, k) ==
    IF k = 0 THEN Identity(Len(M))
    ELSE MatScale(MatMul(ExpmTerm(M, k - 1), M), Rat(1, k))

RECURSIVE ExpmSum(_, _)
ExpmSum(M, k) ==
    IF k = 0 THEN ExpmTerm(M, 0) ELSE MatAdd(ExpmSum(M, k - 1), ExpmTerm(M, k))

\* linalg.expm(M)
Expm(M) == ExpmSum(M, TaylorOrder)

\* ------------------------------------------------------------- the program

VARIABLES
    pc,        \* position of the calling script
    params,    \* (a1, a2, b, w, tm, R, t1, t2, tv, tref)
    state,     \* (V, h1, h2, hv, dhv): the initial state
    dt,        \* time step
    current,   \* forcing current, one sample per bin
    spikes,    \* spike times handed to predict_adaptation
    N,         \* trace length handed to predict_adaptation (or Missing)
    Aexp,      \* what impulse_matrix returned
    Y,         \* what predict returned
    V,         \* what predict_voltage returned
    H,         \* what predict_adaptation returned for the spike times
    Harr,      \* what predict_adaptation returned for the indicator array
    L,         \* what loglike_exp returned
    rng,       \* the process-wide random stream
    seeded,    \* the seed just installed, until a run draws from the stream
    runs       \* the stochastic runs made so far

vars ==
    <<pc, params, state, dt, current, spikes, N, Aexp, Y, V, H, Harr, L, rng, seeded, runs>>

\* An optional value: given, or missing.
Missing == <<>>

Given(n) == <<n>>

\* A call that has not been made.
NotCalled == [err |-> "not called"]

\* An exception leaves the caller without a return value.
Raise(e) == [err |-> e, val |-> <<>>]

Return(v) == [err |-> "none", val |-> v]

Returned(r) == r.err = "none"

Raised(r) == r.err \notin {"none", "not called"}

\* The ten parameters by name; the 9-element unpacking of predict_voltage and
\* predict_adaptation reads the first nine.
a1(p) == p[1]
a2(p) == p[2]
b(p) == p[3]
w(p) == p[4]
tm(p) == p[5]
R(p) == p[6]
t1(p) == p[7]
t2(p) == p[8]
tv(p) == p[9]
tref(p) == p[10]

\* SystemMatrix with a coupling from hv back into dhv.
SystemMatrixFeedback(p) ==
    LET m == RNeg(RDiv(One, Num(tm(p))))
        d1 == RNeg(RDiv(One, Num(t1(p))))
        d2 == RNeg(RDiv(One, Num(t2(p))))
        dv == RNeg(RDiv(One, Num(tv(p))))
        c == RNeg(RDiv(Num(b(p)), Num(tm(p))))
    IN  << <<m, Zero, Zero, Zero, Zero>>,
           <<Zero, d1, Zero, Zero, Zero>>,
           <<Zero, Zero, d2, Zero, Zero>>,
           <<Zero, Zero, Zero, dv, One>>,
           <<c, Zero, Zero, One, dv>> >>

\* The 9-element reduced form of the parameters: tref left out.
Reduced(p) == SubSeq(p, 1, 9)

\* The system matrix of impulse_matrix, sign included.
SystemMatrix(p) ==
    LET m == RNeg(RDiv(One, Num(tm(p))))
        d1 == RNeg(RDiv(One, Num(t1(p))))
        d2 == RNeg(RDiv(One, Num(t2(p))))
        dv == RNeg(RDiv(One, Num(tv(p))))
        c == RNeg(RDiv(Num(b(p)), Num(tm(p))))
    IN  << <<m, Zero, Zero, Zero, Zero>>,
           <<Zero, d1, Zero, Zero, Zero>>,
           <<Zero, Zero, d2, Zero, Zero>>,
           <<Zero, Zero, Zero, dv, One>>,
           <<c, Zero, Zero, Zero, dv>> >>

\* impulse_matrix(params, dt).  Unpacking anything but ten parameters raises
\* ValueError; 1 / 0 on Python numbers raises ZeroDivisionError.
impulse_matrix(p, h) ==
    IF Len(p) # 10 THEN Raise("ValueError")
    ELSE IF tm(p) = 0 \/ t1(p) = 0 \/ t2(p) = 0 \/ tv(p) = 0
    THEN Raise("ZeroDivisionError")
    ELSE Return(Expm(MatScale(SystemMatrix(p), Num(h))))

\* The system matrix of predict_voltage: rows and columns (V, hv, dhv).
VoltageMatrix(p) ==
    LET m == RNeg(RDiv(One, Num(tm(p))))
        dv == RNeg(RDiv(One, Num(tv(p))))
        c == RNeg(RDiv(Num(b(p)), Num(tm(p))))
    IN  << <<m, Zero, Zero>>,
           <<Zero, dv, One>>,
           <<c, Zero, dv>> >>

\* x[0] = R / tm * current[i]
ForcingV(p, c) == RMul(RDiv(Num(R(p)), Num(tm(p))), Num(c))

\* x[2] = R / tm * current[i] * b
ForcingD(p, c) == RMul(ForcingV(p, c), Num(b(p)))

\* One pass of the loop body of predict_voltage: the new y, which is row i.
VoltageStep(y, E, p, c) == VecAdd(MatVec(E, y), <<ForcingV(p, c), Zero, ForcingD(p, c)>>)

\* Rows i.. of predict_voltage's loop, entered with y.
RECURSIVE VoltageLoop(_, _, _, _, _)
VoltageLoop(y, E, p, cur, i) ==
    IF i > Len(cur) THEN <<>>
    ELSE LET y2 == VoltageStep(y, E, p, cur[i])
         IN  <<y2>> \o VoltageLoop(y2, E, p, cur, i + 1)

\* Whether the module's namespace binds the name linalg.  core.py imports
\* scipy's linalg only inside impulse_matrix, as a local name of that function.
LinalgBound == FALSE

\* predict_voltage(params, state, current, dt).  The system matrix is built
\* first (1 / 0 raises ZeroDivisionError); linalg.expm then looks linalg up in
\* the module's namespace, and an unbound name raises NameError.
predict_voltage(p, st, cur, h) ==
    IF Len(p) # 9 THEN Raise("ValueError")
    ELSE IF tm(p) = 0 \/ tv(p) = 0 THEN Raise("ZeroDivisionError")
    ELSE IF ~LinalgBound THEN Raise("NameError")
    ELSE Return(VoltageLoop(<<Num(st[1]), Num(st[4]), Num(st[5])>>,
                            Expm(MatScale(VoltageMatrix(p), Num(h))), p, cur, 1))


\* ---- the compiled integrator _model and the random source, after the
\* ---- specification (sections 4.4 and 4.6): their code is not in core.py

\* The shared random stream: a congruential generator over RngModulus values.
RngModulus == 8

NextRandom(r) == (5 * r + 3) % RngModulus

\* The uniform sample in [0, 1) the stream yields in state r.
Uniform(r) == Rat(r, RngModulus)

\* A reseed that leaves the stream where it is.
random_seed_ignored(r, seed) == r

\* reseed(seed): the stream restarts from the seed.
random_seed(r, seed) == seed % RngModulus

RLess(x, y) == ~RLeq(y, x)

\* The forcing of the full state: the voltage and dhv rows, none into the
\* adaptation rows.
Forcing(p, c) == <<ForcingV(p, c), Zero, Zero, Zero, ForcingD(p, c)>>

\* The instantaneous threshold h1 + h2 + hv + w.
Threshold(y, p) == RAdd(RAdd(y[2], y[3]), RAdd(y[4], Num(w(p))))

\* The conditional intensity exp(V - h1 - h2 - hv - w), never negative.
Intensity(y, p) ==
    LET e == Exp(RSub(y[1], Threshold(y, p)))
    IN  IF RLess(e, Zero) THEN Zero ELSE e

\* An integrator with no refractory period.
RefractoryNever(S, i, p, h) == FALSE

\* Whether bin i falls within tref of the last recorded spike.
Refractory(S, i, p, h) == S # <<>> /\ (i - S[Len(S)]) * h < tref(p)

\* The spike decision at bin i in state y, with the sample u at hand.
Decide(mode, y, u, p, h) ==
    CASE mode = "deterministic" -> RLeq(Threshold(y, p), y[1])
      [] mode = "poisson" -> RLess(u, RMul(Intensity(y, p), Num(h)))
      [] mode = "softmax" ->
            RLess(u, RDiv(Intensity(y, p), RAdd(One, Intensity(y, p))))

\* One sample of the full integrator.  acc holds the state y, the rows and
\* spikes recorded so far and the random stream; i is the bin, from 0.
IntegratorStep(acc, i, E, p, c, h, mode) ==
    LET y2 == VecAdd(MatVec(E, acc.y), Forcing(p, c))
        blocked == Refractory(acc.S, i, p, h)
        draws == mode # "deterministic" /\ ~blocked
        spike == ~blocked /\ Decide(mode, y2, Uniform(acc.rng), p, h)
        y3 == IF spike
              THEN <<y2[1], RAdd(y2[2], Num(a1(p))), RAdd(y2[3], Num(a2(p))), y2[4], y2[5]>>
              ELSE y2
    IN  [y |-> y3,
         rows |-> Append(acc.rows, y2),
         S |-> IF spike THEN Append(acc.S, i) ELSE acc.S,
         rng |-> IF draws THEN NextRandom(acc.rng) ELSE acc.rng]

RECURSIVE Integrate(_, _, _, _, _, _, _)
Integrate(acc, i, E, p, cur, h, mode) ==
    IF i >= Len(cur) THEN acc
    ELSE Integrate(IntegratorStep(acc, i, E, p, cur[i + 1], h, mode),
                   i + 1, E, p, cur, h, mode)

\* _model.predict(state, Aexp, params, current, dt): the trajectory, the spike
\* train and the random stream it leaves behind.
model_predict(st, E, p, cur, h, mode, r) ==
    Integrate([y |-> Tabulate(LAMBDA k : Num(st[k]), 5), rows |-> <<>>, S |-> <<>>, rng |-> r],
              0, E, p, cur, h, mode)

\* predict's last line: an exception of impulse_matrix passes through predict,
\* and otherwise the integrator runs with the matrix E.val.
predict(E, st, p, cur, h, mode, r) ==
    IF Raised(E) THEN E ELSE Return(model_predict(st, E.val, p, cur, h, mode, r))

\* (x / h).astype('i'): the quotient cut toward zero (h # 0).
Trunc(x, h) ==
    LET q == Abs(x) \div Abs(h)
    IN  IF (x < 0) = (h < 0) THEN q ELSE -q

\* idx = (np.asarray(spikes) / dt).astype('i')
SpikeIndices(sp, h) == Tabulate(LAMBDA k : Trunc(sp[k], h), Len(sp))

\* spk = np.zeros(N); spk[idx] = 1, for indices numpy accepts: a negative index
\* counts from the end of the array.
SpikeArray(idx, n) ==
    Tabulate(LAMBDA i : IF \E k \in 1..Len(idx) : idx[k] = i - 1 \/ idx[k] + n = i - 1
                        THEN 1 ELSE 0, n)

\* One pass of the loop body of predict_adaptation: the new y, which is row i.
AdaptationStep(y, s, A1, A2, p) ==
    <<RAdd(RMul(A1, y[1]), RMul(Num(a1(p)), Num(s))),
      RAdd(RMul(A2, y[2]), RMul(Num(a2(p)), Num(s)))>>

\* Rows i.. of predict_adaptation's loop, entered with y.
RECURSIVE AdaptationLoop(_, _, _, _, _, _)
AdaptationLoop(y, spk, i, A1, A2, p) ==
    IF i > Len(spk) THEN <<>>
    ELSE LET y2 == AdaptationStep(y, spk[i], A1, A2, p)
         IN  <<y2>> \o AdaptationLoop(y2, spk, i + 1, A1, A2, p)

\* predict_adaptation(params, state, spikes, dt, N), for dt # 0.  N is a
\* required argument: a call without it raises TypeError.  Unpacking anything
\* but nine parameters raises ValueError.  An index at or
\* beyond N, or below -N, raises IndexError at spk[idx] = 1.
predict_adaptation(p, st, sp, h, nArg) ==
    IF nArg = Missing THEN Raise("TypeError")
    ELSE IF Len(p) # 9 THEN Raise("ValueError")
    ELSE IF t1(p) = 0 \/ t2(p) = 0 THEN Raise("ZeroDivisionError")
    ELSE LET n == nArg[1]
             A1 == Exp(RNeg(RDiv(Num(h), Num(t1(p)))))
             A2 == Exp(RNeg(RDiv(Num(h), Num(t2(p)))))
             idx == SpikeIndices(sp, h)
         IN  IF \E k \in 1..Len(idx) : idx[k] >= n \/ idx[k] < -n
             THEN Raise("IndexError")
             ELSE Return(AdaptationLoop(<<Num(st[2]), Num(st[3])>>,
                                        SpikeArray(idx, n), 1, A1, A2, p))

\* loglike_exp with hv read from the third column of V.
loglike_exp_third_column(Vt, Ht, p) ==
    Tabulate(LAMBDA i : RSub(RSub(RSub(RSub(Vt[i][1], Ht[i][1]), Ht[i][2]), Vt[i][3]),
                             Num(p[4])),
             Len(Vt))

\* loglike_exp(V, H, params), for trajectories with the same number of rows:
\* V[:, 0] - H[:, 0] - H[:, 1] - V[:, 1] - params[3]
loglike_exp(Vt, Ht, p) ==
    Tabulate(LAMBDA i : RSub(RSub(RSub(RSub(Vt[i][1], Ht[i][1]), Ht[i][2]), Vt[i][2]),
                             Num(p[4])),
             Len(Vt))

\* ----------------------------------------------------------------- inputs

\* Time constants and time steps tried, the non-positive ones included.
TimeConstants == {-1, 0, 1, 2}

PositiveTimeConstants == {1, 2}

TimeSteps == {-1, 0, 1, 2}

PositiveTimeSteps == {1, 2}

Couplings == {-1, 0, 1}

ValidTimeConstants(p) == tm(p) > 0 /\ t1(p) > 0 /\ t2(p) > 0 /\ tv(p) > 0

\* ------------------------------------------- a script calling impulse_matrix

InitMatrix ==
    /\ pc = "ready"
    /\ \E cb \in Couplings, ctm \in TimeConstants, ct1 \in TimeConstants,
          ct2 \in TimeConstants, ctv \in TimeConstants :
          params = <<1, 1, cb, 1, ctm, 1, ct1, ct2, ctv, 1>>
    /\ dt \in TimeSteps
    /\ state = <<0, 0, 0, 0, 0>>
    /\ current = <<>>
    /\ spikes = <<>>
    /\ N = Missing
    /\ Aexp = NotCalled
    /\ Y = NotCalled
    /\ V = NotCalled
    /\ H = NotCalled
    /\ Harr = NotCalled
    /\ L = NotCalled
    /\ rng = 0
    /\ seeded = Missing
    /\ runs = <<>>

CallImpulseMatrix ==
    /\ pc = "ready"
    /\ Aexp' = impulse_matrix(params, dt)
    /\ pc' = "done"
    /\ UNCHANGED <<params, state, dt, current, spikes, N, Y, V, H, Harr, L, rng, seeded, runs>>

NextMatrix == CallImpulseMatrix

SpecMatrix == InitMatrix /\ [][NextMatrix]_vars

\* C6: for valid parameters and dt > 0, impulse_matrix returns a 5x5 matrix
\* whose diagonal is (exp(-dt/tm), exp(-dt/t1), exp(-dt/t2), exp(-dt/tv),
\* exp(-dt/tv)), whatever the coupling b.
DiagonalIsScalarExp ==
    (pc = "done" /\ ValidTimeConstants(params) /\ dt > 0) =>
        /\ Returned(Aexp)
        /\ Len(Aexp.val) = 5
        /\ \A i \in 1..5 : Len(Aexp.val[i]) = 5
        /\ Aexp.val[1][1] = Exp(RNeg(RDiv(Num(dt), Num(tm(params)))))
        /\ Aexp.val[2][2] = Exp(RNeg(RDiv(Num(dt), Num(t1(params)))))
        /\ Aexp.val[3][3] = Exp(RNeg(RDiv(Num(dt), Num(t2(params)))))
        /\ Aexp.val[4][4] = Exp(RNeg(RDiv(Num(dt), Num(tv(params)))))
        /\ Aexp.val[5][5] = Exp(RNeg(RDiv(Num(dt), Num(tv(params)))))

\* A matrix was built for valid parameters with both couplings present.
CoupledMatrixBuilt ==
    /\ pc = "done"
    /\ Returned(Aexp)
    /\ ValidTimeConstants(params)
    /\ dt > 0
    /\ b(params) # 0
    /\ tm(params) # tv(params)

\* C9: a time constant <= 0 or dt <= 0 ends impulse_matrix in an error and no
\* matrix is returned.
NonPositiveRejected ==
    (pc = "done" /\ (~ValidTimeConstants(params) \/ dt <= 0)) => Raised(Aexp)

\* --------------------------------------- a script calling predict_adaptation

\* Sequences over S of length at most n.
RECURSIVE SeqsUpTo(_, _)
SeqsUpTo(S, n) ==
    IF n = 0 THEN {<<>>}
    ELSE LET shorter == SeqsUpTo(S, n - 1)
         IN  shorter \cup {Append(q, x) : q \in shorter, x \in S}

\* A spike train as the spec describes it: strictly increasing bin indices
\* within [0, n).
ValidSpikeTrain(sp, nArg) ==
    /\ nArg # Missing
    /\ \A k \in 1..Len(sp) : 0 <= sp[k] /\ sp[k] < nArg[1]
    /\ \A k \in 1..(Len(sp) - 1) : sp[k] < sp[k + 1]

\* The caller's indicator array: spk = np.zeros(n); spk[S] = 1.
Indicator(sp, nArg) ==
    Tabulate(LAMBDA i : IF \E k \in 1..Len(sp) : sp[k] = i - 1 THEN 1 ELSE 0, nArg[1])

InitAdapt ==
    /\ pc = "ready"
    /\ \E ca1 \in {1, 2}, ct1 \in PositiveTimeConstants, ct2 \in PositiveTimeConstants :
          params = <<ca1, 1, 0, 1, 1, 1, ct1, ct2, 1, 1>>
    /\ dt \in PositiveTimeSteps
    /\ \E h1 \in {0, 1} : state = <<0, h1, 0, 0, 0>>
    /\ current = <<>>
    /\ spikes \in SeqsUpTo((-MaxN)..MaxN, MaxN)
    /\ N \in {Given(n) : n \in 0..MaxN} \cup {Missing}
    /\ Aexp = NotCalled
    /\ Y = NotCalled
    /\ V = NotCalled
    /\ H = NotCalled
    /\ Harr = NotCalled
    /\ L = NotCalled
    /\ rng = 0
    /\ seeded = Missing
    /\ runs = <<>>

\* H = predict_adaptation(params, state, S, dt, N), or the same call without N.
CallPredictAdaptationTimes ==
    /\ H = NotCalled
    /\ H' = predict_adaptation(Reduced(params), state, spikes, dt, N)
    /\ pc' = "called"
    /\ UNCHANGED <<params, state, dt, current, spikes, N, Aexp, Y, V, Harr, L, rng, seeded, runs>>

\* spk = np.zeros(N); spk[S] = 1; H = predict_adaptation(params, state, spk, dt, N)
CallPredictAdaptationArray ==
    /\ Harr = NotCalled
    /\ ValidSpikeTrain(spikes, N)
    /\ Harr' = predict_adaptation(Reduced(params), state, Indicator(spikes, N), dt, N)
    /\ pc' = "called"
    /\ UNCHANGED <<params, state, dt, current, spikes, N, Aexp, Y, V, H, L, rng, seeded, runs>>

NextAdapt == CallPredictAdaptationTimes \/ CallPredictAdaptationArray

SpecAdapt == InitAdapt /\ [][NextAdapt]_vars

\* The decayed value of row i - 1 (of the initial state for row 0), i from 1.
DecayedPrevious(i) ==
    LET prev == IF i = 1 THEN <<Num(state[2]), Num(state[3])>> ELSE H.val[i - 1]
    IN  <<RMul(Exp(RNeg(RDiv(Num(dt), Num(t1(params))))), prev[1]),
          RMul(Exp(RNeg(RDiv(Num(dt), Num(t2(params))))), prev[2])>>

\* C1: predict_adaptation is strictly causal: a spike recorded at bin i does
\* not change row i of the returned trajectory, which is the decayed row
\* i - 1; the increments a1, a2 first appear in row i + 1.
SpikeLeavesOwnRow ==
    (Returned(H) /\ ValidSpikeTrain(spikes, N) /\ dt = 1) =>
        \A k \in 1..Len(spikes) : H.val[spikes[k] + 1] = DecayedPrevious(spikes[k] + 1)

\* C7: for a strictly increasing list S of bin indices within [0, N), the
\* call with S and N returns the same trajectory as the call with the
\* length-N indicator array that has ones exactly at the bins in S.
TimesAndArrayAgree ==
    (H # NotCalled /\ Harr # NotCalled /\ ValidSpikeTrain(spikes, N) /\ dt = 1) =>
        (Returned(H) /\ Returned(Harr) /\ H.val = Harr.val)

\* C8: an index outside [0, N), or a spike-time list given without N, ends
\* predict_adaptation in an error, with no trajectory returned.
BadIndicesRejected ==
    (/\ H # NotCalled
     /\ \/ N = Missing
        \/ \E k \in 1..Len(spikes) : spikes[k] < 0 \/ spikes[k] >= N[1])
        => (Raised(H) /\ H.val = <<>>)

\* -------------------------- a script calling predict and predict_voltage

InitVoltage ==
    /\ pc = "ready"
    /\ \E cb \in Couplings, ctm \in PositiveTimeConstants, cR \in {1, 2},
          ctv \in PositiveTimeConstants, ctref \in {1, 2} :
          params = <<1, 1, cb, 1, ctm, cR, 1, 2, ctv, ctref>>
    /\ dt = 1
    /\ \E v0 \in 0..2 : state = <<v0, 0, 0, 0, 0>>
    /\ current \in SeqsUpTo(0..2, MaxN)
    /\ spikes = <<>>
    /\ N = Missing
    /\ Aexp = NotCalled
    /\ Y = NotCalled
    /\ V = NotCalled
    /\ H = NotCalled
    /\ Harr = NotCalled
    /\ L = NotCalled
    /\ rng = 0
    /\ seeded = Missing
    /\ runs = <<>>

\* Y, S = predict(state, params, I, dt), with predict's local Aexp kept
CallPredict ==
    /\ pc = "ready"
    /\ Aexp' = impulse_matrix(params, dt)
    /\ Y' = predict(Aexp', state, params, current, dt, "deterministic", rng)
    /\ pc' = "predicted"
    /\ UNCHANGED <<params, state, dt, current, spikes, N, V, H, Harr, L, rng, seeded, runs>>

\* V = predict_voltage(params, state, I, dt)
CallPredictVoltage ==
    /\ pc = "predicted"
    /\ V' = predict_voltage(Reduced(params), state, current, dt)
    /\ pc' = "done"
    /\ UNCHANGED <<params, state, dt, current, spikes, N, Aexp, Y, H, Harr, L, rng, seeded, runs>>

NextVoltage == CallPredict \/ CallPredictVoltage

SpecVoltage == InitVoltage /\ [][NextVoltage]_vars

\* The bins of the current trace, from 0.
Bins == 0..(Len(current) - 1)

\* Row i of predict's trajectory, i from 0.
Row(i) == Y.val.rows[i + 1]

\* C2: the trajectory predict_voltage returns equals columns (V, hv, dhv) of
\* predict's trajectory at every bin, spike bins included.
VoltageMatchesFull ==
    (V # NotCalled /\ Y # NotCalled /\ Returned(Y)) =>
        /\ Returned(V)
        /\ Len(V.val) = Len(current)
        /\ \A i \in Bins : V.val[i + 1] = <<Row(i)[1], Row(i)[4], Row(i)[5]>>

\* The rows the loop of predict_voltage computes once it is handed the matrix
\* exponential equal the (V, hv, dhv) columns of predict's trajectory.
VoltageLoopMatchesFull ==
    (pc = "done" /\ Returned(Y)) =>
        VoltageLoop(<<Num(state[1]), Num(state[4]), Num(state[5])>>,
                    Expm(MatScale(VoltageMatrix(Reduced(params)), Num(dt))),
                    Reduced(params), current, 1)
            = Tabulate(LAMBDA k : <<Row(k - 1)[1], Row(k - 1)[4], Row(k - 1)[5]>>, Len(current))

\* C3: under a constant current A the voltage update has the fixed point
\* A * R: a voltage that starts at A * R stays there.
SteadyStateIsAR ==
    (/\ Returned(Y)
     /\ current # <<>>
     /\ \A i \in Bins : current[i + 1] = current[1]
     /\ state[1] = current[1] * R(params))
        => \A i \in Bins : Row(i)[1] = Num(current[1] * R(params))

\* The spikes recorded before bin i.
SpikesBefore(i) == {Y.val.S[k] : k \in {j \in 1..Len(Y.val.S) : Y.val.S[j] < i}}

Spiked(i) == \E k \in 1..Len(Y.val.S) : Y.val.S[k] = i

\* The voltage block of row i continues row i - 1 (the initial state for
\* row 0) through the transition matrix and the forcing alone.
VoltageContinuous(i) ==
    LET E == Aexp.val
        prev == IF i = 0 THEN Tabulate(LAMBDA k : Num(state[k]), 5) ELSE Row(i - 1)
        x == Forcing(params, current[i + 1])
    IN  \A r \in {1, 4, 5} :
            Row(i)[r] = RAdd(RAdd(RMul(E[r][1], prev[1]),
                                  RAdd(RMul(E[r][4], prev[4]), RMul(E[r][5], prev[5]))),
                             x[r])

\* C4: the deterministic integrator records a spike at bin i iff V[i] >=
\* h1 + h2 + hv + w and bin i is not within tref of the previous spike; the
\* spike train is strictly increasing with consecutive spikes at least tref
\* apart; and a spike never resets V, hv or dhv.
DeterministicSpikeRule ==
    Returned(Y) =>
        /\ Len(Y.val.rows) = Len(current)
        /\ \A i \in Bins :
              Spiked(i) <=>
                  /\ RLeq(RAdd(RAdd(Row(i)[2], Row(i)[3]), RAdd(Row(i)[4], Num(w(params)))),
                          Row(i)[1])
                  /\ \A j \in SpikesBefore(i) : (i - j) * dt >= tref(params)
        /\ \A k \in 1..Len(Y.val.S) : Y.val.S[k] \in Bins
        /\ \A k \in 1..(Len(Y.val.S) - 1) :
              /\ Y.val.S[k] < Y.val.S[k + 1]
              /\ (Y.val.S[k + 1] - Y.val.S[k]) * dt >= tref(params)
        /\ \A i \in Bins : VoltageContinuous(i)

\* A run in which one bin spiked and a later bin reached the threshold but
\* was held back by the refractory period.
SpikeThenRefractory ==
    /\ Returned(Y)
    /\ \E i \in Bins, j \in Bins :
          /\ j < i
          /\ Spiked(j)
          /\ ~Spiked(i)
          /\ RLeq(RAdd(RAdd(Row(i)[2], Row(i)[3]), RAdd(Row(i)[4], Num(w(params)))),
                  Row(i)[1])

\* ------------------------------------------------ a script calling loglike_exp

\* Rows of a voltage trajectory (V, hv, dhv) and of an adaptation trajectory
\* (h1, h2).
VoltageRows == {<<Num(v), Rat(hv, 2), Num(dhv)>> : v \in {0, 1}, hv \in {0, 1}, dhv \in {0, 3}}

AdaptationRows == {<<Rat(h1, 2), Num(h2)>> : h1 \in {0, 1}, h2 \in {0, 1}}

InitLike ==
    /\ pc = "ready"
    /\ \E cw \in {0, 1} : params = <<1, 1, 0, cw, 1, 1, 1, 2, 1, 1>>
    /\ dt = 1
    /\ state = <<0, 0, 0, 0, 0>>
    /\ current = <<>>
    /\ spikes = <<>>
    /\ N = Missing
    /\ Aexp = NotCalled
    /\ Y = NotCalled
    /\ \E n \in 0..MaxN :
          /\ V \in {Return(q) : q \in [1..n -> VoltageRows]}
          /\ H \in {Return(q) : q \in [1..n -> AdaptationRows]}
    /\ Harr = NotCalled
    /\ L = NotCalled
    /\ rng = 0
    /\ seeded = Missing
    /\ runs = <<>>

\* lci = loglike_exp(V, H, params)
CallLoglikeExp ==
    /\ pc = "ready"
    /\ L' = Return(loglike_exp(V.val, H.val, params))
    /\ pc' = "done"
    /\ UNCHANGED <<params, state, dt, current, spikes, N, Aexp, Y, V, H, Harr, rng, seeded, runs>>

NextLike == CallLoglikeExp

SpecLike == InitLike /\ [][NextLike]_vars

\* The result has one entry per bin, and entry i is V[i] - h1[i] - h2[i] -
\* hv[i] - w, from row i of the two trajectories alone.
LogIntensityPerBin ==
    (pc = "done") =>
        /\ Returned(L)
        /\ Len(L.val) = Len(V.val)
        /\ \A i \in 1..Len(V.val) :
              RAdd(L.val[i], RAdd(RAdd(H.val[i][1], H.val[i][2]),
                                  RAdd(V.val[i][2], Num(w(params)))))
                  = V.val[i][1]

\* C10: the log-intensity evaluator is a pure per-bin function: entry i of the
\* result is V[i] - h1[i] - h2[i] - hv[i] - w, one entry per bin, and the
\* trajectories and parameters it reads are left unchanged.
LogIntensityPure ==
    /\ []LogIntensityPerBin
    /\ [][V' = V /\ H' = H /\ params' = params]_vars

\* A log-intensity was computed over several bins that differ from each other.
LogIntensityComputed ==
    /\ pc = "done"
    /\ Len(L.val) >= 2
    /\ V.val[1] # V.val[2]
    /\ H.val[1] # H.val[2]
    /\ V.val[1][2] # V.val[1][3]
    /\ w(params) # 0

\* ----------------------------------- a script making seeded stochastic runs

\* Runs recorded per behaviour.
MaxRuns == 2

Seeds == {1, 2}

Modes == {"poisson", "softmax"}

InitRandom ==
    /\ pc = "ready"
    /\ \E cw \in {1, 2} : params = <<1, 1, 0, cw, 1, 1, 1, 1, 1, 1>>
    /\ dt = 1
    /\ state = <<0, 0, 0, 0, 0>>
    /\ current \in {q \in SeqsUpTo({0, 1}, MaxN) : Len(q) = MaxN}
    /\ spikes = <<>>
    /\ N = Missing
    /\ Aexp = NotCalled
    /\ Y = NotCalled
    /\ V = NotCalled
    /\ H = NotCalled
    /\ Harr = NotCalled
    /\ L = NotCalled
    /\ rng \in {0, 5}
    /\ seeded = Missing
    /\ runs = <<>>

\* core.random_seed(seed)
CallRandomSeed ==
    /\ \E seed \in Seeds :
          /\ rng' = random_seed(rng, seed)
          /\ seeded' = Given(seed)
    /\ pc' = "seeded"
    /\ UNCHANGED <<params, state, dt, current, spikes, N, Aexp, Y, V, H, Harr, L, runs>>

\* Y, S = core.predict(state, params, I, dt, stochastic=mode)
CallPredictStochastic ==
    /\ Len(runs) < MaxRuns
    /\ \E mode \in Modes :
          /\ Aexp' = impulse_matrix(params, dt)
          /\ Y' = predict(Aexp', state, params, current, dt, mode, rng)
          /\ rng' = Y'.val.rng
          /\ runs' = Append(runs, [seed |-> seeded, mode |-> mode, S |-> Y'.val.S])
    /\ seeded' = Missing
    /\ pc' = "ran"
    /\ UNCHANGED <<params, state, dt, current, spikes, N, V, H, Harr, L>>

NextStochastic == CallRandomSeed \/ CallPredictStochastic

SpecRandom == InitRandom /\ [][NextStochastic]_vars

====
